---- MODULE Spec2Model ----
(***************************************************************************)
(* Model of the LocalGPT HTTP server (src/server/http.rs).                 *)
(*                                                                         *)
(* The server is an axum Router with five routes served by a tokio         *)
(* multi-thread runtime.  Async handlers are polled on the runtime's       *)
(* event-loop threads ("loop" threads); tokio::task::spawn_blocking moves  *)
(* a closure to the runtime's blocking pool ("worker" threads).            *)
(*                                                                         *)
(* A request's pc names the operation its thread is currently inside; the  *)
(* action that completes the operation draws its outcome.                  *)
(***************************************************************************)
EXTENDS Integers, Sequences, FiniteSets, Bags, TLC

\* ------------------------------------------------------------------ bounds
MaxRequests == 2        \* requests the clients send in one run
LoopThreads == 2        \* event-loop threads of the runtime
MaxBlocking == 2        \* largest blocking-pool capacity the runtime is built with
StoreChunks == 12       \* chunks (and records) the memory store holds

DefaultLimit == 10      \* limit.unwrap_or(10)
StatusOk == 200
StatusBadRequest == 400
StatusUnsupportedMedia == 415
StatusUnprocessable == 422
StatusInternal == 500

\* ------------------------------------------------------------------ values
HandleIds == 1..MaxRequests
NoHandle == 0

LoopIds == 1..LoopThreads
NoThread == [kind |-> "none", id |-> 0]
LoopThread(i) == [kind |-> "loop", id |-> i]
WorkerThread(j) == [kind |-> "worker", id |-> j]

None == [some |-> FALSE, v |-> ""]
Some(x) == [some |-> TRUE, v |-> x]
NoLimit == [some |-> FALSE, v |-> 0]

Messages == {"", "hi"}
Models == {"m2"}
Queries == {"", "foo"}
Limits == {NoLimit, [some |-> TRUE, v |-> 2]}

\* the Config the server was constructed with
StartupConfig ==
  [default_model |-> "m1", context_window |-> "cw", reserve_tokens |-> "rt",
   memory |-> "memcfg"]

\* bodies POST /api/chat can carry: Json<ChatRequest> either deserializes or
\* is rejected by the extractor before the handler body runs (400 for a
\* syntax error, 415 for a missing JSON content type, 422 for JSON that is
\* no ChatRequest)
ChatBodies ==
  {[ok |-> TRUE, reject |-> 0, message |-> m, model |-> mo] :
      m \in Messages, mo \in {None} \cup {Some(x) : x \in Models}}
  \cup {[ok |-> FALSE, reject |-> s, message |-> "", model |-> None] :
      s \in {StatusBadRequest, StatusUnsupportedMedia, StatusUnprocessable}}

\* query strings GET /api/memory/search can carry (q is required)
SearchQueries ==
  {[ok |-> TRUE, reject |-> 0, q |-> q, limit |-> l] : q \in Queries, l \in Limits}
  \cup {[ok |-> FALSE, reject |-> StatusBadRequest, q |-> "", limit |-> NoLimit]}

NoInput == [ok |-> TRUE, reject |-> 0]

\* ------------------------------------------------------------ collaborators
\* anyhow error raised by a collaborator operation; e.to_string() is its text
ErrorText(op) == "failed: " \o op

\* JoinError of a unit of work that panicked
JoinErrorText == "task panicked"

\* Agent::chat: the reply of a session with this history under this model
Reply(model, history) == [by |-> model, to |-> history]

\* MemoryManager::search: the best `limit` records, by descending score
RECURSIVE Records(_)
Records(n) ==
  IF n = 0 THEN <<>>
  ELSE <<[file |-> "f", line_start |-> n, line_end |-> n + 1, content |-> "c", score |-> n]>>
         \o Records(n - 1)

Min(a, b) == IF a < b THEN a ELSE b

StoreSearch(q, limit) == SubSeq(Records(StoreChunks), 1, Min(limit, StoreChunks))

\* MemoryManager::stats
StoreStats == [workspace |-> "ws", total_files |-> 1, total_chunks |-> StoreChunks,
               index_size_kb |-> 1]

\* ------------------------------------------------------------------- state
VARIABLES
  config,     \* AppState.config, shared by every handler through the Arc
  cap,        \* capacity of the runtime's blocking pool
  reqs,       \* the requests received so far, a bag of request records
  queue,      \* closures waiting in the blocking pool, oldest first
  stores,     \* live MemoryManager values, by handle
  agents      \* live Agent values, by handle

vars == <<config, cap, reqs, queue, stores, agents>>

NoResult == [tag |-> "none", value |-> [response |-> "", model |-> ""], text |-> ""]
NoResponse == [status |-> 0, kind |-> "none", body |-> [text |-> ""]]
NoClosure == [taken |-> FALSE]
\* a heap cell: threads are the threads that have used the value; the other
\* fields are the Agent's (its AgentConfig, the store moved into it, its session)
FreeCell ==
  [live |-> FALSE, threads |-> {}, config |-> [model |-> ""], store |-> NoHandle,
   session |-> FALSE, history |-> <<>>]

\* loop: the event-loop thread polling the handler; worker: the blocking-pool
\* thread running the handler's unit of work; log: the collaborator
\* operations the request has run, with their outcomes
\* the arguments of the request's call of memory.search, once made
NoAsk == [made |-> FALSE, query |-> "", limit |-> 0]

NewReq(route, input) ==
  [route |-> route, input |-> input, pc |-> "new",
   loop |-> NoThread, worker |-> NoThread,
   closure |-> NoClosure, store |-> NoHandle, agent |-> NoHandle,
   result |-> NoResult, resp |-> NoResponse, connected |-> TRUE,
   log |-> <<>>, spawned |-> 0, asked |-> NoAsk]

Init ==
  /\ config = StartupConfig
  /\ cap \in 1..MaxBlocking
  /\ reqs = EmptyBag
  /\ queue = <<>>
  /\ stores = [h \in HandleIds |-> FreeCell]
  /\ agents = [h \in HandleIds |-> FreeCell]

\* ----------------------------------------------------------------- helpers
Requests == BagToSet(reqs)

Arrived == BagCardinality(reqs)

Put(req) == reqs (+) SetToBag({req})

Replace(old, new) == (reqs (-) SetToBag({old})) (+) SetToBag({new})

Busy(t) == \E req \in Requests : req.loop = t \/ req.worker = t

\* threads of one kind are interchangeable: the lowest free one stands for
\* whichever the scheduler picks
FreeLoop(i) ==
  /\ i \in LoopIds /\ ~Busy(LoopThread(i))
  /\ \A k \in LoopIds : k < i => Busy(LoopThread(k))

FreeWorker(j) ==
  /\ j \in 1..cap /\ ~Busy(WorkerThread(j))
  /\ \A k \in 1..cap : k < j => Busy(WorkerThread(k))

\* the thread executing the request's current operation
Exec(req) == IF req.worker # NoThread THEN req.worker ELSE req.loop

\* a cached instance handed to every request
SharedHandle(heap) == CHOOSE h \in HandleIds : \A g \in HandleIds : h <= g

\* a newly constructed value never aliases a live one
FreshHandle(heap) ==
  CHOOSE h \in HandleIds : ~heap[h].live /\ \A g \in HandleIds : g < h => heap[g].live

\* every use of a value is recorded with the thread that used it
Touch(heap, h, t) ==
  IF h = NoHandle THEN heap ELSE [heap EXCEPT ![h].threads = @ \cup {t}]

\* a value that is never destroyed
DropLeaks(heap, h) == heap

\* the value goes out of scope and is destroyed
Drop(heap, h) == IF h = NoHandle THEN heap ELSE [heap EXCEPT ![h] = FreeCell]

Logged(req, op, outcome) == Append(req.log, [op |-> op, outcome |-> outcome])

\* MemoryManager::new(&config.memory) returning Ok
OpenStore(heap, t) ==
  [heap EXCEPT ![FreshHandle(heap)] = [FreeCell EXCEPT !.live = TRUE, !.threads = {t}]]

\* an error response that hides the failure's message
AppErrorSanitized(status, text) ==
  [status |-> status, kind |-> "text", body |-> [text |-> "internal error"]]

\* (status, text).into_response() of AppError, and Json(..).into_response()
AppError(status, text) == [status |-> status, kind |-> "text", body |-> [text |-> text]]

JsonResponse(value) == [status |-> StatusOk, kind |-> "json", body |-> value]

\* a rejection reported with the status of a backend failure
RejectionAsInternal(status) ==
  [status |-> StatusInternal, kind |-> "text", body |-> [text |-> "rejected"]]

\* the extractor's rejection, sent without running the handler body
Rejection(status) == [status |-> status, kind |-> "text", body |-> [text |-> "rejected"]]

Outcomes == {"ok", "err"}

\* a request arrives and its handler is first polled on event-loop thread i
Arrive(i, route, input, pc) ==
  /\ Arrived < MaxRequests
  /\ FreeLoop(i)
  /\ reqs' = Put([NewReq(route, input) EXCEPT !.pc = pc, !.loop = LoopThread(i)])

\* the extractor rejects the request: the handler body never runs
Reject(i, route, input) ==
  /\ Arrived < MaxRequests
  /\ FreeLoop(i)
  /\ reqs' = Put([NewReq(route, input) EXCEPT !.pc = "done", !.resp = Rejection(input.reject)])

\* the handler returns its response and leaves its event-loop thread
Respond(req, op, outcome, response) ==
  [req EXCEPT !.pc = "done", !.resp = response, !.log = Logged(req, op, outcome),
              !.loop = NoThread, !.store = NoHandle]

\* ------------------------------------------------------------- GET /health
\* a health check that reports the memory store's reachability
HealthResponseOfStore ==
  IF \E req \in BagToSet(reqs) : \E k \in 1..Len(req.log) : req.log[k].outcome = "err"
    THEN [status |-> StatusInternal, kind |-> "text", body |-> [text |-> "unhealthy"]]
    ELSE [status |-> StatusOk, kind |-> "text", body |-> [text |-> "OK"]]

HealthResponse == [status |-> StatusOk, kind |-> "text", body |-> [text |-> "OK"]]

HealthCheck(i) ==
  /\ Arrived < MaxRequests
  /\ FreeLoop(i)
  /\ reqs' = Put([NewReq("health", NoInput) EXCEPT !.pc = "done", !.resp = HealthResponse])
  /\ UNCHANGED <<config, cap, queue, stores, agents>>

\* --------------------------------------------------------- GET /api/status
StatusResponse(cfg, chunks) ==
  JsonResponse([version |-> "pkg", model |-> cfg.default_model, memory_chunks |-> chunks])

StatusAccept(i) ==
  /\ Arrive(i, "status", NoInput, "store_new")
  /\ UNCHANGED <<config, cap, queue, stores, agents>>

\* a status handler that returns the store's error with `?`
StatusStoreNewPropagates(req, outcome) ==
  /\ req.route = "status" /\ req.pc = "store_new"
  /\ IF outcome = "ok"
       THEN /\ stores' = OpenStore(stores, Exec(req))
            /\ reqs' = Replace(req, [req EXCEPT !.pc = "chunk_count",
                                                !.store = FreshHandle(stores),
                                                !.log = Logged(req, "store_new", "ok")])
       ELSE /\ stores' = stores
            /\ reqs' = Replace(req, Respond(req, "store_new", "err",
                                 AppError(StatusInternal, ErrorText("store_new"))))
  /\ UNCHANGED <<config, cap, queue, agents>>

\* MemoryManager::new(..).ok(): a failure leaves None, and the count is 0
StatusStoreNew(req, outcome) ==
  /\ req.route = "status" /\ req.pc = "store_new"
  /\ IF outcome = "ok"
       THEN /\ stores' = OpenStore(stores, Exec(req))
            /\ reqs' = Replace(req, [req EXCEPT !.pc = "chunk_count",
                                                !.store = FreshHandle(stores),
                                                !.log = Logged(req, "store_new", "ok")])
       ELSE /\ stores' = stores
            /\ reqs' = Replace(req, Respond(req, "store_new", "err", StatusResponse(config, 0)))
  /\ UNCHANGED <<config, cap, queue, agents>>

\* memory.and_then(|m| m.chunk_count().ok()).unwrap_or(0)
StatusChunkCount(req, outcome) ==
  /\ req.route = "status" /\ req.pc = "chunk_count"
  /\ stores' = Drop(stores, req.store)
  /\ reqs' = Replace(req, Respond(req, "chunk_count", outcome,
                       StatusResponse(config, IF outcome = "ok" THEN StoreChunks ELSE 0)))
  /\ UNCHANGED <<config, cap, queue, agents>>

\* --------------------------------------------------- GET /api/memory/stats
StatsAccept(i) ==
  /\ Arrive(i, "stats", NoInput, "store_new")
  /\ UNCHANGED <<config, cap, queue, stores, agents>>

StatsStoreNew(req, outcome) ==
  /\ req.route = "stats" /\ req.pc = "store_new"
  /\ IF outcome = "ok"
       THEN /\ stores' = OpenStore(stores, Exec(req))
            /\ reqs' = Replace(req, [req EXCEPT !.pc = "stats",
                                                !.store = FreshHandle(stores),
                                                !.log = Logged(req, "store_new", "ok")])
       ELSE /\ stores' = stores
            /\ reqs' = Replace(req, Respond(req, "store_new", "err",
                                 AppError(StatusInternal, ErrorText("store_new"))))
  /\ UNCHANGED <<config, cap, queue, agents>>

StatsQuery(req, outcome) ==
  /\ req.route = "stats" /\ req.pc = "stats"
  /\ stores' = Drop(stores, req.store)
  /\ reqs' = Replace(req, Respond(req, "stats", outcome,
                       IF outcome = "ok"
                         THEN JsonResponse(StoreStats)
                         ELSE AppError(StatusInternal, ErrorText("stats"))))
  /\ UNCHANGED <<config, cap, queue, agents>>

\* -------------------------------------------------- GET /api/memory/search
\* a default that asks the store for more than ten records
EffectiveLimitDoubled(limit) == IF limit.some THEN limit.v ELSE DefaultLimit * 2

\* let limit = limit.unwrap_or(10);
EffectiveLimit(limit) == IF limit.some THEN limit.v ELSE DefaultLimit

\* SearchResult { file, line_start, line_end, content, score } of one record
ToSearchResult(r) ==
  [file |-> r.file, line_start |-> r.line_start, line_end |-> r.line_end,
   content |-> r.content, score |-> r.score]

\* a mapping that hands the records back last first
SearchResultsReversed(rs) == [k \in 1..Len(rs) |-> ToSearchResult(rs[Len(rs) + 1 - k])]

\* results.into_iter().map(..).collect()
SearchResults(rs) == [k \in 1..Len(rs) |-> ToSearchResult(rs[k])]

SearchAccept(i, query) ==
  /\ IF query.ok THEN Arrive(i, "search", query, "store_new") ELSE Reject(i, "search", query)
  /\ UNCHANGED <<config, cap, queue, stores, agents>>

SearchStoreNew(req, outcome) ==
  /\ req.route = "search" /\ req.pc = "store_new"
  /\ IF outcome = "ok"
       THEN /\ stores' = OpenStore(stores, Exec(req))
            /\ reqs' = Replace(req, [req EXCEPT !.pc = "search",
                                                !.store = FreshHandle(stores),
                                                !.log = Logged(req, "store_new", "ok")])
       ELSE /\ stores' = stores
            /\ reqs' = Replace(req, Respond(req, "store_new", "err",
                                 AppError(StatusInternal, ErrorText("store_new"))))
  /\ UNCHANGED <<config, cap, queue, agents>>

SearchQuery(req, outcome) ==
  /\ req.route = "search" /\ req.pc = "search"
  /\ stores' = Drop(stores, req.store)
  /\ LET limit == EffectiveLimit(req.input.limit)
         called == [req EXCEPT !.asked = [made |-> TRUE, query |-> req.input.q, limit |-> limit]]
     IN  reqs' = Replace(req, Respond(called, "search", outcome,
                          IF outcome = "ok"
                            THEN JsonResponse(
                                   [results |-> SearchResults(StoreSearch(req.input.q, limit)),
                                    query |-> req.input.q])
                            ELSE AppError(StatusInternal, ErrorText("search"))))
  /\ UNCHANGED <<config, cap, queue, agents>>

\* ---------------------------------------------------------- POST /api/chat
\* a closure that reads the message from a buffer shared with the units of
\* work still waiting
CaptureShared(cfg, body) ==
  [taken |-> TRUE, config |-> cfg,
   message |-> IF queue # <<>> THEN queue[1].message ELSE body.message,
   model |-> body.model]

\* the values the closure handed to spawn_blocking owns: clones of the
\* config, of request.message and of request.model
Capture(cfg, body) ==
  [taken |-> TRUE, config |-> cfg, message |-> body.message, model |-> body.model]

\* a handler that waits for the unit of work on its own thread
Blocked(t) == t

\* awaiting the JoinHandle returns Pending: the handler leaves thread t
Suspended(t) == NoThread

\* a resolution that ignores the request's override
ResolveModelDefault(model, default) == default

\* model.unwrap_or(config.agent.default_model.clone())
ResolveModel(model, default) == IF model.some THEN model.v ELSE default

ChatOps == <<"store_new", "agent_new", "new_session", "chat">>

WorkPcs == {ChatOps[k] : k \in 1..Len(ChatOps)}

OpIndex(op) == CHOOSE k \in 1..Len(ChatOps) : ChatOps[k] = op

\* a closure that goes on after a failed operation
NextPcIgnoringErrors(op, outcome) ==
  IF OpIndex(op) < Len(ChatOps) THEN ChatOps[OpIndex(op) + 1] ELSE "finished"

\* a closure that tries a failed operation again
NextPcRetrying(op, outcome) ==
  IF outcome # "ok" THEN op
  ELSE IF OpIndex(op) < Len(ChatOps) THEN ChatOps[OpIndex(op) + 1] ELSE "finished"

\* the statement the closure reaches after `op`: `?` returns the error at
\* once, and Ok(ChatResponse) follows agent.chat
NextPc(op, outcome) ==
  IF outcome = "ok" /\ OpIndex(op) < Len(ChatOps) THEN ChatOps[OpIndex(op) + 1] ELSE "finished"

OkResult(value) == [tag |-> "ok", value |-> value, text |-> ""]
ErrResult(text) == [tag |-> "err", value |-> [response |-> "", model |-> ""], text |-> text]
JoinErrResult(text) == [tag |-> "join_err", value |-> [response |-> "", model |-> ""], text |-> text]

\* a closure whose return never wakes the task awaiting its JoinHandle
FinishWithoutWake(req, result) ==
  [req EXCEPT !.pc = IF req.connected THEN "unjoined" ELSE "dropped",
              !.result = IF req.connected THEN result ELSE NoResult,
              !.worker = NoThread, !.store = NoHandle, !.agent = NoHandle]

\* the closure returns (or unwinds): its locals are dropped, the worker is
\* released and the JoinHandle holds the result; a JoinHandle that was
\* dropped with the connection discards it
Finish(req, result) ==
  [req EXCEPT !.pc = IF req.connected THEN "finished" ELSE "dropped",
              !.result = IF req.connected THEN result ELSE NoResult,
              !.worker = NoThread, !.store = NoHandle, !.agent = NoHandle]

\* `base` is the request after the operation's own effect
Advance(base, req, op, outcome, okResult) ==
  LET logged == [base EXCEPT !.log = Logged(req, op, outcome)]
      next == NextPc(op, outcome)
  IN  IF next = "finished"
        THEN Finish(logged, IF outcome = "ok" THEN okResult ELSE ErrResult(ErrorText(op)))
        ELSE [logged EXCEPT !.pc = next]

\* the heap after the step: a closure that returns drops what it owns
Settle(heap, h, op, outcome) ==
  IF NextPc(op, outcome) = "finished" THEN Drop(heap, h) ELSE heap

\* a handler that stores the request's model as the server's default
ChatAcceptOverwrites(i, body) ==
  /\ IF body.ok
       THEN /\ Arrived < MaxRequests
            /\ FreeLoop(i)
            /\ reqs' = Put([NewReq("chat", body) EXCEPT
                              !.pc = "queued", !.closure = Capture(config, body),
                              !.loop = Suspended(LoopThread(i)), !.spawned = @ + 1])
            /\ queue' = Append(queue, Capture(config, body))
            /\ config' = [config EXCEPT !.default_model = ResolveModel(body.model, @)]
       ELSE /\ Reject(i, "chat", body)
            /\ queue' = queue
            /\ config' = config
  /\ UNCHANGED <<cap, stores, agents>>

\* a handler that refuses an empty message
ChatAcceptValidating(i, body) ==
  /\ IF body.ok /\ body.message # ""
       THEN /\ Arrived < MaxRequests
            /\ FreeLoop(i)
            /\ reqs' = Put([NewReq("chat", body) EXCEPT
                              !.pc = "queued", !.closure = Capture(config, body),
                              !.loop = Suspended(LoopThread(i)), !.spawned = @ + 1])
            /\ queue' = Append(queue, Capture(config, body))
       ELSE /\ Reject(i, "chat", [body EXCEPT !.reject = StatusBadRequest])
            /\ queue' = queue
  /\ UNCHANGED <<config, cap, stores, agents>>

\* the chat handler up to its .await: the extractor has run, the closure is
\* handed to the blocking pool and the handler leaves its thread
ChatAccept(i, body) ==
  /\ IF body.ok
       THEN /\ Arrived < MaxRequests
            /\ FreeLoop(i)
            /\ reqs' = Put([NewReq("chat", body) EXCEPT
                              !.pc = "queued", !.closure = Capture(config, body),
                              !.loop = Suspended(LoopThread(i)), !.spawned = @ + 1])
            /\ queue' = Append(queue, Capture(config, body))
       ELSE /\ Reject(i, "chat", body)
            /\ queue' = queue
  /\ UNCHANGED <<config, cap, stores, agents>>

\* a blocking-pool thread takes the oldest waiting closure
WorkerStart(j) ==
  /\ queue # <<>>
  /\ FreeWorker(j)
  /\ \E req \in Requests :
       /\ req.pc = "queued" /\ req.closure = Head(queue)
       /\ reqs' = Replace(req, [req EXCEPT !.pc = ChatOps[1], !.worker = WorkerThread(j)])
  /\ queue' = Tail(queue)
  /\ UNCHANGED <<config, cap, stores, agents>>

\* let memory = MemoryManager::new(&config.memory)?;
ChatStoreNew(req, outcome) ==
  /\ req.route = "chat" /\ req.pc = "store_new"
  /\ LET h == FreshHandle(stores)
         opened == IF outcome = "ok" THEN OpenStore(stores, Exec(req)) ELSE stores
         base == IF outcome = "ok" THEN [req EXCEPT !.store = h] ELSE req
     IN  /\ stores' = Settle(opened, base.store, "store_new", outcome)
         /\ reqs' = Replace(req, Advance(base, req, "store_new", outcome, NoResult))
  /\ UNCHANGED <<config, cap, queue, agents>>

\* let mut agent = Agent::new(agent_config, &config, memory).await?;
ChatAgentNew(req, outcome) ==
  /\ req.route = "chat" /\ req.pc = "agent_new"
  /\ LET h == FreshHandle(agents)
         agent_config == [model |-> ResolveModel(req.closure.model,
                                                 req.closure.config.default_model),
                          context_window |-> req.closure.config.context_window,
                          reserve_tokens |-> req.closure.config.reserve_tokens]
         cell == [live |-> TRUE, threads |-> {Exec(req)},
                  config |-> agent_config, store |-> req.store,
                  session |-> FALSE, history |-> <<>>]
         made == IF outcome = "ok" THEN [agents EXCEPT ![h] = cell] ELSE agents
         base == IF outcome = "ok" THEN [req EXCEPT !.agent = h] ELSE req
         moved == Touch(stores, req.store, Exec(req))
     IN  /\ agents' = Settle(made, base.agent, "agent_new", outcome)
         /\ stores' = Settle(moved, req.store, "agent_new", outcome)
         /\ reqs' = Replace(req, Advance(base, req, "agent_new", outcome, NoResult))
  /\ UNCHANGED <<config, cap, queue>>

\* agent.new_session().await?;
ChatNewSession(req, outcome) ==
  /\ req.route = "chat" /\ req.pc = "new_session"
  /\ LET used == Touch(agents, req.agent, Exec(req))
         started == IF outcome = "ok"
                      THEN [used EXCEPT ![req.agent].session = TRUE,
                                        ![req.agent].history = <<>>]
                      ELSE used
     IN  /\ agents' = Settle(started, req.agent, "new_session", outcome)
         /\ stores' = Settle(stores, req.store, "new_session", outcome)
         /\ reqs' = Replace(req, Advance(req, req, "new_session", outcome, NoResult))
  /\ UNCHANGED <<config, cap, queue>>

\* let response = agent.chat(&message).await?;
\* let model = agent.model().to_string();
\* Ok(ChatResponse { response, model })
ChatTurn(req, outcome) ==
  /\ req.route = "chat" /\ req.pc = "chat"
  /\ LET used == Touch(agents, req.agent, Exec(req))
         history == Append(used[req.agent].history, req.closure.message)
         said == IF outcome = "ok" THEN [used EXCEPT ![req.agent].history = history] ELSE used
         response == Reply(said[req.agent].config.model, history)
         model == said[req.agent].config.model
     IN  /\ agents' = Settle(said, req.agent, "chat", outcome)
         /\ stores' = Settle(stores, req.store, "chat", outcome)
         /\ reqs' = Replace(req, Advance(req, req, "chat", outcome,
                                         OkResult([response |-> response, model |-> model])))
  /\ UNCHANGED <<config, cap, queue>>

\* the unit of work panics inside its current operation: the stack unwinds
\* and the JoinHandle yields a JoinError
ChatPanic(req) ==
  /\ req.route = "chat" /\ req.pc \in WorkPcs
  /\ reqs' = Replace(req, Finish([req EXCEPT !.log = Logged(req, req.pc, "panic")],
                                 JoinErrResult(JoinErrorText)))
  /\ agents' = Drop(agents, req.agent)
  /\ stores' = Drop(stores, req.store)
  /\ UNCHANGED <<config, cap, queue>>

\* match result { Ok(Ok(response)) .., Ok(Err(e)) .., Err(e) .. }
\* a handler that unwraps the JoinHandle's result: a JoinError unwinds the
\* handler and the connection closes without a response
ChatResponseUnwraps(result) ==
  CASE result.tag = "ok" -> JsonResponse(result.value)
    [] result.tag = "err" -> AppError(StatusInternal, result.text)
    [] OTHER -> NoResponse

ChatResponse(result) ==
  CASE result.tag = "ok" -> JsonResponse(result.value)
    [] result.tag = "err" -> AppError(StatusInternal, result.text)
    [] OTHER -> AppError(StatusInternal, result.text)

\* the JoinHandle is ready: the handler is polled again on thread i, which
\* consumes the result
ChatRespond(req, i) ==
  /\ req.route = "chat" /\ req.pc = "finished"
  /\ FreeLoop(i)
  /\ reqs' = Replace(req, [req EXCEPT !.pc = "done", !.resp = ChatResponse(req.result),
                                      !.result = NoResult])
  /\ UNCHANGED <<config, cap, queue, stores, agents>>

\* a disconnect that aborts the unit of work with the handler future
ClientDisconnectCancels(req) ==
  /\ req.route = "chat" /\ req.connected
  /\ req.pc \in {"queued", "finished"} \cup WorkPcs
  /\ reqs' = Replace(req, [req EXCEPT !.connected = FALSE, !.pc = "dropped",
                                      !.result = NoResult, !.worker = NoThread,
                                      !.store = NoHandle, !.agent = NoHandle])
  /\ stores' = Drop(stores, req.store)
  /\ agents' = Drop(agents, req.agent)
  /\ UNCHANGED <<config, cap, queue>>

\* the client closes the connection: the handler future and its JoinHandle
\* are dropped, the unit of work is not
ClientDisconnect(req) ==
  /\ req.route = "chat" /\ req.connected
  /\ req.pc \in {"queued", "finished"} \cup WorkPcs
  /\ reqs' = Replace(req, [req EXCEPT !.connected = FALSE,
                                      !.pc = IF @ = "finished" THEN "dropped" ELSE @,
                                      !.result = NoResult])
  /\ UNCHANGED <<config, cap, queue, stores, agents>>

Next ==
  \/ \E i \in LoopIds : HealthCheck(i)
  \/ \E i \in LoopIds : StatusAccept(i)
  \/ \E req \in Requests, o \in Outcomes : StatusStoreNew(req, o)
  \/ \E req \in Requests, o \in Outcomes : StatusChunkCount(req, o)
  \/ \E i \in LoopIds : StatsAccept(i)
  \/ \E req \in Requests, o \in Outcomes : StatsStoreNew(req, o)
  \/ \E req \in Requests, o \in Outcomes : StatsQuery(req, o)
  \/ \E i \in LoopIds, q \in SearchQueries : SearchAccept(i, q)
  \/ \E req \in Requests, o \in Outcomes : SearchStoreNew(req, o)
  \/ \E req \in Requests, o \in Outcomes : SearchQuery(req, o)
  \/ \E i \in LoopIds, b \in ChatBodies : ChatAccept(i, b)
  \/ \E j \in 1..MaxBlocking : WorkerStart(j)
  \/ \E req \in Requests, o \in Outcomes : ChatStoreNew(req, o)
  \/ \E req \in Requests, o \in Outcomes : ChatAgentNew(req, o)
  \/ \E req \in Requests, o \in Outcomes : ChatNewSession(req, o)
  \/ \E req \in Requests, o \in Outcomes : ChatTurn(req, o)
  \/ \E req \in Requests : ChatPanic(req)
  \/ \E req \in Requests, i \in LoopIds : ChatRespond(req, i)
  \/ \E req \in Requests : ClientDisconnect(req)

Spec == Init /\ [][Next]_vars

\* what the runtime keeps doing without any client's help: a free blocking
\* thread takes the oldest queued closure, a collaborator operation that was
\* entered returns, and a handler whose JoinHandle is ready is polled again
Progress ==
  \/ \E j \in 1..MaxBlocking : WorkerStart(j)
  \/ \E req \in Requests, o \in Outcomes :
       \/ ChatStoreNew(req, o) \/ ChatAgentNew(req, o)
       \/ ChatNewSession(req, o) \/ ChatTurn(req, o)
       \/ StatusStoreNew(req, o) \/ StatusChunkCount(req, o)
       \/ StatsStoreNew(req, o) \/ StatsQuery(req, o)
       \/ SearchStoreNew(req, o) \/ SearchQuery(req, o)
  \/ \E req \in Requests, i \in LoopIds : ChatRespond(req, i)

\* the server under a fair scheduler whose collaborators all terminate
FairSpec == Spec /\ WF_vars(Progress)

\* ================================================================== claims
\* the operations a request has run, in order
LogOps(req) == [k \in 1..Len(req.log) |-> req.log[k].op]

Count(req, op) == Cardinality({k \in 1..Len(req.log) : req.log[k].op = op})

\* the collaborator operations a route's handler runs when nothing fails
Steps(route) ==
  CASE route = "chat" -> ChatOps
    [] route = "search" -> <<"store_new", "search">>
    [] route = "stats" -> <<"store_new", "stats">>
    [] route = "status" -> <<"store_new", "chunk_count">>
    [] OTHER -> <<>>

AllSucceeded(req) ==
  /\ LogOps(req) = Steps(req.route)
  /\ \A k \in 1..Len(req.log) : req.log[k].outcome = "ok"

InWork(req) == req.route = "chat" /\ req.pc \in {"queued", "finished"} \cup WorkPcs

\* the requests that hold the store (agent) with handle h
StoreHolders(h) == {req \in Requests : req.store = h}
AgentHolders(h) == {req \in Requests : req.agent = h}

SoleOwner(holders, cell) ==
  \E req \in holders :
    /\ holders = {req}
    /\ CopiesIn(req, reqs) = 1
    /\ Exec(req) # NoThread
    /\ cell.threads = {Exec(req)}

\* C1: every live store handle and every live agent is held by exactly one
\* request and has been used by exactly one thread, the one executing that
\* request; a handle a request holds is live; an agent's store is its
\* request's store.
C1_ExclusiveOwnership ==
  /\ \A h \in HandleIds :
       /\ stores[h].live => SoleOwner(StoreHolders(h), stores[h])
       /\ agents[h].live => SoleOwner(AgentHolders(h), agents[h])
  /\ \A req \in Requests :
       /\ req.store # NoHandle => stores[req.store].live
       /\ req.agent # NoHandle =>
            agents[req.agent].live /\ agents[req.agent].store = req.store

\* two chat requests are in their units of work at once, each holding its
\* own agent and store on its own worker
C1_Witness ==
  \E a, b \in Requests :
    /\ a # b
    /\ a.agent # NoHandle /\ b.agent # NoHandle
    /\ a.agent # b.agent /\ a.store # b.store
    /\ a.worker # b.worker

BlockingPcs == WorkPcs \cup {"search", "stats", "chunk_count"}

\* C2: a request that is inside a store or backend operation is executing on
\* a worker of the blocking pool, never on an event-loop thread.
C2_BlockingOnlyOnWorkers ==
  \A req \in Requests : req.pc \in BlockingPcs => Exec(req).kind = "worker"

\* C3: a chat request whose unit of work is queued, running or waiting to be
\* answered holds no event-loop thread, and while only chat work is in
\* flight a GET /health request (if the clients send one) is accepted and
\* answered at once.
C3_ChatDoesNotBlockAcceptance ==
  /\ \A req \in Requests : InWork(req) => req.loop = NoThread
  /\ (Arrived < MaxRequests /\ \A req \in Requests : req.pc = "done" \/ req.pc = "dropped" \/ InWork(req))
       => ENABLED (\E i \in LoopIds : HealthCheck(i))

\* a chat unit of work is inside its turn on a worker and a health check
\* can be accepted and answered in the next step
C3_Witness ==
  /\ \E req \in Requests : req.route = "chat" /\ req.pc = "chat" /\ req.worker # NoThread
  /\ ENABLED (\E i \in LoopIds : HealthCheck(i))

\* what a chat request's own input and the startup config determine
OwnModel(req) == IF req.input.model.some THEN req.input.model.v ELSE StartupConfig.default_model

OwnChatResponse(req) ==
  [response |-> Reply(OwnModel(req), <<req.input.message>>), model |-> OwnModel(req)]

\* C4: the result of every successful chat unit of work, and the response
\* sent for it, is the backend's reply to that request's own message alone
\* under that request's own model (its override, else the startup default).
C4_NoCrossContamination ==
  \A req \in Requests :
    req.route = "chat" =>
      /\ req.result.tag = "ok" => req.result.value = OwnChatResponse(req)
      /\ (req.pc = "done" /\ req.resp.kind = "json") => req.resp.body = OwnChatResponse(req)

\* one chat request has its successful result while another, with a
\* different message and model, is in its own turn on another agent
C4_Witness ==
  \E a, b \in Requests :
    /\ a.route = "chat" /\ b.route = "chat"
    /\ a.input.message # b.input.message /\ a.input.model # b.input.model
    /\ a.pc = "finished" /\ a.result.tag = "ok"
    /\ b.pc = "chat" /\ agents[b.agent].history = <<>> /\ agents[b.agent].session

\* C5: for chat, search and stats, the response is 200 with a JSON body
\* exactly when every collaborator step of the request ran and succeeded;
\* a step that failed yields status 500 with that failure's message as body.
C5_FailureMapping ==
  \A req \in Requests :
    (req.route \in {"chat", "search", "stats"} /\ req.pc = "done") =>
      /\ (req.resp.status = StatusOk /\ req.resp.kind = "json") <=> AllSucceeded(req)
      /\ \A k \in 1..Len(req.log) :
           req.log[k].outcome = "err" =>
             req.resp = [status |-> StatusInternal, kind |-> "text",
                         body |-> [text |-> ErrorText(req.log[k].op)]]

\* GET /api/memory/stats with the store unreachable, answered
C5_Witness ==
  \E req \in Requests :
    /\ req.route = "stats" /\ req.pc = "done"
    /\ req.log = <<[op |-> "store_new", outcome |-> "err"]>>
    /\ req.resp.status = StatusInternal

\* C6: every answer of GET /api/status is 200 with a JSON body whose
\* memory_chunks is the store's chunk count when the store opened and its
\* count was read, and 0 when either failed.
C6_StatusBestEffort ==
  \A req \in Requests :
    (req.route = "status" /\ req.pc = "done") =>
      /\ req.resp.status = StatusOk /\ req.resp.kind = "json"
      /\ req.resp.body.memory_chunks = IF AllSucceeded(req) THEN StoreChunks ELSE 0
      /\ req.resp.body.model = StartupConfig.default_model

\* a status request answered after the store failed to open, and one after
\* the count failed
C6_Witness ==
  /\ \E req \in Requests :
       /\ req.route = "status" /\ req.pc = "done"
       /\ req.log = <<[op |-> "store_new", outcome |-> "err"]>>
  /\ \E req \in Requests :
       /\ req.route = "status" /\ req.pc = "done" /\ Len(req.log) = 2
       /\ req.log[2] = [op |-> "chunk_count", outcome |-> "err"]

\* C7: every GET /health request is answered 200 "OK" whatever the other
\* requests met, having run no collaborator operation, constructed no store
\* or agent and submitted nothing to the blocking pool.
C7_HealthBypassesBackend ==
  \A req \in Requests :
    req.route = "health" =>
      /\ req.pc = "done"
      /\ req.resp = [status |-> StatusOk, kind |-> "text", body |-> [text |-> "OK"]]
      /\ req.log = <<>> /\ req.spawned = 0 /\ req.closure = NoClosure
      /\ req.store = NoHandle /\ req.agent = NoHandle
      /\ req.loop = NoThread /\ req.worker = NoThread

\* a health check answered after another request found the store unreachable
C7_Witness ==
  /\ \E req \in Requests : req.route = "health" /\ req.pc = "done"
  /\ \E req \in Requests : req.log = <<[op |-> "store_new", outcome |-> "err"]>>

\* C8: a POST /api/chat whose body does not deserialize is answered with a
\* 4xx status, submits no unit of work and constructs no store or agent.
C8_MalformedChatRejected ==
  \A req \in Requests :
    (req.route = "chat" /\ ~req.input.ok) =>
      /\ req.pc = "done"
      /\ req.resp.status >= StatusBadRequest /\ req.resp.status < StatusInternal
      /\ req.spawned = 0 /\ req.closure = NoClosure /\ req.log = <<>>
      /\ req.store = NoHandle /\ req.agent = NoHandle /\ req.worker = NoThread

\* a malformed chat request has been answered while nothing is queued
C8_Witness ==
  /\ \E req \in Requests :
       req.route = "chat" /\ ~req.input.ok /\ req.resp.status = StatusUnprocessable
  /\ queue = <<>>

\* C9: the operations a chat request has run are a prefix of store_new,
\* agent_new, new_session, chat; every one but the last succeeded; a request
\* still in its unit of work is inside the operation after its last success;
\* once one failed the request runs nothing more and that failure is its
\* result and its response.
C9_StepsInOrder ==
  \A req \in Requests :
    req.route = "chat" =>
      /\ Len(req.log) <= Len(ChatOps)
      /\ LogOps(req) = SubSeq(ChatOps, 1, Len(req.log))
      /\ \A k \in 1..Len(req.log) - 1 : req.log[k].outcome = "ok"
      /\ req.pc \in WorkPcs =>
           /\ \A k \in 1..Len(req.log) : req.log[k].outcome = "ok"
           /\ req.pc = ChatOps[Len(req.log) + 1]
      /\ \A k \in 1..Len(req.log) :
           req.log[k].outcome = "err" =>
             /\ req.pc \in {"finished", "done", "dropped"}
             /\ req.pc = "finished" => req.result = ErrResult(ErrorText(req.log[k].op))
             /\ req.pc = "done" => req.resp.body.text = ErrorText(req.log[k].op)

\* a chat request whose session failed to start holds that failure, having
\* run three operations and no turn
C9_Witness ==
  \E req \in Requests :
    /\ req.route = "chat" /\ req.pc = "finished"
    /\ Len(req.log) = 3 /\ req.log[3] = [op |-> "new_session", outcome |-> "err"]
    /\ req.result.tag = "err"

\* C10: a chat request submits at most one unit of work and runs each of
\* its collaborator operations at most once; a successful one ran each
\* exactly once.
C10_AtMostOnce ==
  \A req \in Requests :
    req.route = "chat" =>
      /\ req.spawned <= 1
      /\ \A op \in WorkPcs : Count(req, op) <= 1
      /\ (req.result.tag = "ok" \/ (req.pc = "done" /\ req.resp.status = StatusOk)) =>
           /\ \A op \in WorkPcs : Count(req, op) = 1
           /\ req.log[Len(req.log)] = [op |-> "chat", outcome |-> "ok"]

\* a chat request answered 200 after exactly one turn, and one that failed
\* in its turn and ran it once
C10_Witness ==
  /\ \E req \in Requests :
       /\ req.route = "chat" /\ req.pc = "done" /\ req.resp.status = StatusOk
       /\ Count(req, "chat") = 1
  /\ \E req \in Requests :
       /\ req.route = "chat" /\ req.pc = "done" /\ req.resp.status = StatusInternal
       /\ Count(req, "chat") = 1

\* a request that has left the server: answered, or its connection closed
Exited(req) == req.pc \in {"done", "dropped"} \/ ~req.connected

\* the request is inside one of its collaborator operations
Running(req) == req.pc \in BlockingPcs /\ Exec(req) # NoThread

\* C11 as claimed: no store or agent exists whose request has exited, be it
\* answered or dropped by its client.
C11_NoInstanceAfterExit ==
  /\ \A req \in Requests : Exited(req) => req.store = NoHandle /\ req.agent = NoHandle
  /\ \A h \in HandleIds :
       /\ stores[h].live => \E req \in StoreHolders(h) : ~Exited(req)
       /\ agents[h].live => \E req \in AgentHolders(h) : ~Exited(req)

\* C11 amended: a store or agent exists only while the unit of work (the
\* handler, for the routes that run on the event loop) that constructed it
\* is running: a request that is new, queued, finished, answered or
\* discarded holds none, and no live value is without such a holder.  A
\* request whose client has gone keeps its instances until its unit of work
\* ends.
C11_InstanceLivesWithinUnitOfWork ==
  /\ \A req \in Requests :
       ~Running(req) => req.store = NoHandle /\ req.agent = NoHandle
  /\ \A req \in Requests :
       (req.route = "chat" /\ req.pc = "store_new") => req.store = NoHandle /\ req.agent = NoHandle
  /\ \A h \in HandleIds :
       /\ stores[h].live => \E req \in StoreHolders(h) : Running(req)
       /\ agents[h].live => \E req \in AgentHolders(h) : Running(req)

\* a chat request has been answered after its turn failed and another has
\* been discarded after running to its end: nothing is live any more
C11_Witness ==
  /\ \E req \in Requests :
       req.route = "chat" /\ req.pc = "done" /\ Len(req.log) = Len(ChatOps)
         /\ req.resp.status = StatusInternal
  /\ \E req \in Requests : req.pc = "dropped" /\ Len(req.log) = Len(ChatOps)
  /\ \A h \in HandleIds : ~stores[h].live /\ ~agents[h].live

\* the unit of work has run to its natural end: its last step failed or
\* panicked, or all four steps succeeded
RanToEnd(req) ==
  /\ req.log # <<>>
  /\ \/ req.log[Len(req.log)].outcome # "ok"
     \/ LogOps(req) = ChatOps

\* a chat request whose client has gone is still waiting in the queue, or
\* still occupying its worker inside one of its steps, or has run to its
\* natural end; it has neither a result nor a response
Uncancelled ==
  \A req \in Requests :
    ~req.connected =>
      /\ req.route = "chat"
      /\ req.resp = NoResponse /\ req.result = NoResult
      /\ req.pc \in {"queued", "dropped"} \cup WorkPcs
      /\ req.pc = "queued" => \E k \in 1..Len(queue) : queue[k] = req.closure
      /\ req.pc \in WorkPcs => req.worker # NoThread /\ Busy(req.worker)
      /\ req.pc = "dropped" => req.worker = NoThread /\ RanToEnd(req)

\* C12: a chat request whose client has gone is not cancelled: at every
\* moment it is waiting, running on its worker or run to its end, without a
\* result or a response, and under fair scheduling every such unit of work
\* does run to its end.
C12_DisconnectDoesNotCancel ==
  /\ []Uncancelled
  /\ <>[](\A req \in Requests : ~req.connected => req.pc = "dropped" /\ RanToEnd(req))

\* a unit of work is in its turn on a worker after its client has gone,
\* while another chat request has been answered with its own reply
C12_Witness ==
  /\ \E req \in Requests :
       ~req.connected /\ req.pc = "chat" /\ req.worker # NoThread /\ req.agent # NoHandle
  /\ \E req \in Requests :
       req.route = "chat" /\ req.pc = "done" /\ req.resp.status = StatusOk

\* a chat request whose body was accepted and whose client is still there
Awaited(req) == req.route = "chat" /\ req.input.ok /\ req.connected

\* C18: under fair scheduling, from some point on every accepted chat
\* request whose client is still connected has been answered, with the
\* response its own unit of work produced on its worker, and that unit of
\* work was spawned exactly once.
C18_ChatEventuallyAnswered ==
  <>[](\A req \in Requests :
         Awaited(req) =>
           /\ req.pc = "done" /\ req.resp # NoResponse
           /\ req.spawned = 1 /\ RanToEnd(req)
           /\ req.worker = NoThread)

\* an accepted chat request waits in the queue behind a running unit of work
\* with every worker occupied: it is answered only if the scheduler is fair
C18_Witness ==
  /\ \E req \in Requests : Awaited(req) /\ req.pc = "queued"
  /\ \E req \in Requests : Awaited(req) /\ req.pc \in WorkPcs
  /\ \A j \in 1..cap : Busy(WorkerThread(j))

\* the chat requests whose unit of work is at the given stage, with
\* multiplicity
Units(pcs) ==
  LET at == {req \in Requests : req.route = "chat" /\ req.pc \in pcs}
      RECURSIVE Sum(_)
      Sum(S) == IF S = {} THEN 0
                ELSE LET req == CHOOSE x \in S : TRUE
                     IN  CopiesIn(req, reqs) + Sum(S \ {req})
  IN  Sum(at)

\* C13: at most `cap` units of work run at once, every unit that is not
\* running waits in the queue (none is lost), and the queue is bounded
\* whatever the load: it stays below the number of requests the clients send.
C13_BoundedPoolAndQueue ==
  /\ Units(WorkPcs) <= cap
  /\ Len(queue) = Units({"queued"})
  /\ \A req \in Requests : req.pc = "queued" => \E k \in 1..Len(queue) : queue[k] = req.closure
  /\ Len(queue) < MaxRequests

\* a chat request answered with status 200
ChatSucceeded(req) == req.route = "chat" /\ req.pc = "done" /\ req.resp.status = StatusOk

\* C14: the model field of every successful chat response is the request's
\* model when the request carries one, and the default model of the server's
\* config when it carries none.
C14_ResponseModel ==
  \A req \in Requests :
    ChatSucceeded(req) =>
      /\ req.input.model.some => req.resp.body.model = req.input.model.v
      /\ ~req.input.model.some => req.resp.body.model = config.default_model

\* one successful chat response names the model its request asked for and
\* another, whose request named none, names the default model
C14_Witness ==
  \E a, b \in Requests :
    /\ ChatSucceeded(a) /\ a.input.model.some /\ a.resp.body.model # config.default_model
    /\ ChatSucceeded(b) /\ ~b.input.model.some /\ b.resp.body.model = config.default_model

\* a search request answered with status 200
SearchSucceeded(req) == req.route = "search" /\ req.pc = "done" /\ req.resp.status = StatusOk

\* C15: every successful search response holds at most as many results as
\* the request's limit, at most ten when the request has none; the store was
\* asked for the request's q with exactly that limit; the response's query
\* is the request's q.
C15_SearchLimit ==
  \A req \in Requests :
    SearchSucceeded(req) =>
      LET limit == IF req.input.limit.some THEN req.input.limit.v ELSE DefaultLimit
      IN  /\ Len(req.resp.body.results) <= limit
          /\ req.asked = [made |-> TRUE, query |-> req.input.q, limit |-> limit]
          /\ req.resp.body.query = req.input.q

\* with more than ten records in the store, a search without a limit was
\* answered with ten results and a search with a limit with that many, one of
\* them for the empty query
C15_Witness ==
  \E a, b \in Requests :
    /\ SearchSucceeded(a) /\ ~a.input.limit.some
    /\ Len(a.resp.body.results) = DefaultLimit /\ DefaultLimit < StoreChunks
    /\ SearchSucceeded(b) /\ b.input.limit.some
    /\ Len(b.resp.body.results) = b.input.limit.v
    /\ a.input.q # b.input.q

\* C20: the results of every successful search response are the records the
\* store returned for the call, one for one and in the same order with all
\* their fields, hence by descending score as the store returns them.
C20_ResultsAsReturned ==
  \A req \in Requests :
    SearchSucceeded(req) =>
      LET found == StoreSearch(req.asked.query, req.asked.limit)
          results == req.resp.body.results
      IN  /\ Len(results) = Len(found)
          /\ \A k \in 1..Len(found) : results[k] = found[k]
          /\ \A k \in 1..(Len(results) - 1) : results[k].score >= results[k + 1].score

\* a search response carries several results, all different, the best first
C20_Witness ==
  \E req \in Requests :
    /\ SearchSucceeded(req)
    /\ Len(req.resp.body.results) > 1
    /\ req.resp.body.results[1].score > req.resp.body.results[Len(req.resp.body.results)].score

\* C16: the server's config is its startup value in every reachable state,
\* every unit of work captured a copy of that value, and every status
\* response reports the startup default model.
C16_ConfigNeverMutated ==
  /\ config = StartupConfig
  /\ \A req \in Requests : req.closure.taken => req.closure.config = StartupConfig
  /\ \A req \in Requests :
       (req.route = "status" /\ req.pc = "done") =>
         req.resp.body.model = StartupConfig.default_model

\* a chat request that overrode the model has succeeded and a status
\* response reports the startup default
C16_Witness ==
  /\ \E req \in Requests : ChatSucceeded(req) /\ req.input.model.some
  /\ \E req \in Requests :
       /\ req.route = "status" /\ req.pc = "done"
       /\ req.resp.body.model = StartupConfig.default_model
  /\ config = StartupConfig

\* the request's unit of work panicked
Panicked(req) == \E k \in 1..Len(req.log) : req.log[k].outcome = "panic"

\* C17: a chat unit of work that panicked has ended there: the panic is the
\* last entry of its log, no step ran twice and no second unit was spawned;
\* its worker, store and agent are released; the handler, once resumed,
\* answers with status 500 and the join error's text.
C17_PanicSurfacesOnce ==
  \A req \in Requests :
    Panicked(req) =>
      /\ req.route = "chat" /\ req.spawned = 1
      /\ req.log[Len(req.log)].outcome = "panic"
      /\ \A op \in WorkPcs : Count(req, op) <= 1
      /\ req.pc \in {"finished", "done", "dropped"}
      /\ req.worker = NoThread /\ req.store = NoHandle /\ req.agent = NoHandle
      /\ req.pc = "finished" => req.result = JoinErrResult(JoinErrorText)
      /\ req.pc = "done" =>
           /\ req.resp.status = StatusInternal /\ req.resp.kind = "text"
           /\ req.resp.body = [text |-> JoinErrorText]

\* a chat request whose unit of work panicked in its turn has been answered
\* with 500 and another chat request has succeeded
C17_Witness ==
  /\ \E req \in Requests :
       /\ Panicked(req) /\ req.pc = "done" /\ Len(req.log) = Len(ChatOps)
       /\ req.resp.status = StatusInternal
  /\ \E req \in Requests : ChatSucceeded(req) /\ ~Panicked(req)

\* C19: every chat request whose body was accepted hands its message as it
\* is to one unit of work, whatever the message: the handler never answers
\* it itself, the unit of work starts with the store's construction, and a
\* successful response is the backend's reply to exactly that message after
\* all four steps.
C19_MessageForwardedUnchanged ==
  \A req \in Requests :
    (req.route = "chat" /\ req.input.ok) =>
      /\ req.spawned = 1 /\ req.closure.taken
      /\ req.closure.message = req.input.message
      /\ req.pc = "done" =>
           /\ req.resp.status \in {StatusOk, StatusInternal}
           /\ req.log # <<>> /\ req.log[1].op = ChatOps[1]
      /\ ChatSucceeded(req) =>
           /\ LogOps(req) = ChatOps
           /\ req.resp.body.response = Reply(req.resp.body.model, <<req.input.message>>)

\* a chat request with the empty message has gone through all four steps and
\* been answered with the backend's reply to the empty message
C19_Witness ==
  \E req \in Requests :
    /\ ChatSucceeded(req) /\ req.input.message = ""
    /\ LogOps(req) = ChatOps
    /\ req.resp.body.response.to = <<"">>
====
